---- MODULE Spec2Model ----
(***************************************************************************)
(* State-machine model of the interactive fluid demo's simulation base     *)
(* class (SimBase.py) and of its key-driven option controls (Options.py).  *)
(*                                                                         *)
(* Arrays are functions indexed from 0 as in numpy: v[k][<<r, c>>] is      *)
(* self._v[k, r, c], b[<<r, c>>] is self._b[r, c], shape[0] is the extent  *)
(* of axis 0 (rows) and shape[1] the extent of axis 1 (columns).           *)
(* Floats are exact rationals <<num, den>> with den > 0; velocities are    *)
(* stored as integer multiples of SpeedUnit.                               *)
(***************************************************************************)
EXTENDS Integers, Sequences, FiniteSets, TLC

VARIABLES
    shape,  \* SimBase._shape
    mode,   \* SimBase._mode
    v,      \* SimBase._v, the velocity field
    b,      \* SimBase._b, the boundary mask
    notb,   \* SimBase._notb, the cached complement of the boundary mask
    d,      \* SimBase._d, the density field
    last,   \* the last call made on the SimBase object, with its arguments
    calls,  \* number of calls made on the SimBase object
    cyc,    \* a CycleOption object
    rng,    \* a RangeOption object
    ret,    \* the last call made on an option object, with what it returned
    exc     \* the exception the last call on an option object raised

simVars == <<shape, mode, v, b, notb, d, last, calls>>

optVars == <<cyc, rng, ret, exc>>

vars == <<shape, mode, v, b, notb, d, last, calls, cyc, rng, ret, exc>>

(***************************************************************************)
(* Bounds of the model                                                     *)
(***************************************************************************)
\* number of calls made on a SimBase object after its construction
MaxCalls == 3

(***************************************************************************)
(* Rational arithmetic standing for the float arithmetic of the source     *)
(***************************************************************************)
Rat(n, m) == <<n, m>>

RMul(x, y) == <<x[1] * y[1], x[2] * y[2]>>

\* x / y for y > 0
RDiv(x, y) == <<x[1] * y[2], x[2] * y[1]>>

\* Python's int() on a float: truncation towards zero
PyInt(x) == IF x[1] >= 0 THEN x[1] \div x[2] ELSE -((-x[1]) \div x[2])

\* the floor of a rational, for comparison with int()
Floor(x) == x[1] \div x[2]

\* a velocity of one unit, as a float
SpeedUnit == Rat(1, 2)

(***************************************************************************)
(* Inputs                                                                  *)
(***************************************************************************)
\* camera resolutions and resolution multipliers given to the constructor
CamShapes == {<<8, 6>>, <<11, 8>>}

ResMultipliers == {Rat(1, 2)}

\* time steps
Dts == {Rat(1, 2), Rat(1, 1)}

\* flow speeds, in multiples of SpeedUnit (Options.py builds the speed
\* control with a positive range)
Speeds == {1, 2}

\* flow directions handed in by callers: the four recognised and one not
FlowDirections == 0 .. 3

Directions == FlowDirections \cup {4}

ModeValues == {0, 1, 2}

NumStreams == {2}

SmokeAmounts == {3}

(***************************************************************************)
(* numpy helpers                                                           *)
(***************************************************************************)
Cells == (0 .. shape[0] - 1) \X (0 .. shape[1] - 1)

\* start or stop of a slice, normalised as Python does for an axis of length n
PySliceIndex(n, k) == IF k < 0 THEN (IF n + k < 0 THEN 0 ELSE n + k)
                      ELSE (IF k > n THEN n ELSE k)

\* indices selected by [:k] on an axis of length n
PySliceTo(n, k) == 0 .. (PySliceIndex(n, k) - 1)

\* indices selected by [k:] on an axis of length n
PySliceFrom(n, k) == PySliceIndex(n, k) .. (n - 1)

zeros == [c \in Cells |-> 0]

logical_not(bb) == [c \in Cells |-> ~bb[c]]

(***************************************************************************)
(* Density field (DensityField.py): the record of what it was asked to do  *)
(***************************************************************************)
DensityField_init == [count |-> 0, args |-> <<>>, advected |-> FALSE]

DensityField_add_density(dd, w, flow_direction, num_streams, smoke_amount) ==
    [dd EXCEPT !.count = @ + 1,
               !.args = <<w, flow_direction, num_streams, smoke_amount>>]

DensityField_reset(dd) == DensityField_init

(***************************************************************************)
(* SimBase                                                                 *)
(***************************************************************************)
\* self._dx = np.array([4/3,1]) / np.array(self._shape)
dx == [k \in 0 .. 1 |-> IF k = 0 THEN RDiv(Rat(4, 3), Rat(shape[0], 1))
                                  ELSE RDiv(Rat(1, 1), Rat(shape[1], 1))]

\* SimBase.__init__(cam_shape, res_multiplier)
SimBase_init(cam_shape, res_multiplier) ==
    /\ shape = [k \in 0 .. 1 |-> PyInt(RMul(Rat(cam_shape[k + 1], 1), res_multiplier))]
    /\ mode = 0
    /\ v = [k \in 0 .. 1 |-> zeros]
    /\ b = [c \in Cells |-> FALSE]
    /\ notb = logical_not(b)
    /\ d = DensityField_init
    /\ last = [op |-> "init"]
    /\ calls = 0

\* mode setter
mode_setter(value) ==
    /\ mode' = value
    /\ last' = [op |-> "mode"]
    /\ calls' = calls + 1
    /\ UNCHANGED <<shape, v, b, notb, d>>

\* self._b[:] = cell_ocupation
input_b(cell_ocupation) == [c \in Cells |-> cell_ocupation[c]]

\* self._v[:, self._b] = boundary_velocity[:, self._b]
input_v(vv, bb, boundary_velocity) ==
    [k \in 0 .. 1 |-> [c \in Cells |-> IF bb[c] THEN boundary_velocity[k][c]
                                                ELSE vv[k][c]]]

\* cells of the first and last column: [:, :1] and [:, -1:]
EdgeColumns == {c \in Cells : c[2] \in PySliceTo(shape[1], 1) \cup PySliceFrom(shape[1], -1)}

\* cells of the first and last row: [:1, :] and [-1:, :]
EdgeRows == {c \in Cells : c[1] \in PySliceTo(shape[0], 1) \cup PySliceFrom(shape[0], -1)}

\* the branches of directions 2 and 3 exchanged
WallCells_swapped(flow_direction) ==
    IF flow_direction = 0 THEN EdgeColumns
    ELSE IF flow_direction = 1 THEN EdgeRows
    ELSE IF flow_direction = 2 THEN EdgeRows
    ELSE IF flow_direction = 3 THEN EdgeColumns
    ELSE {}

\* a final else branch that walls the columns
WallCells_default(flow_direction) ==
    IF flow_direction = 0 THEN EdgeColumns
    ELSE IF flow_direction = 1 THEN EdgeRows
    ELSE IF flow_direction = 2 THEN EdgeColumns
    ELSE IF flow_direction = 3 THEN EdgeRows
    ELSE EdgeColumns

\* the cells the if/elif chain of set_boundary turns into walls
WallCells(flow_direction) ==
    IF flow_direction = 0 THEN EdgeColumns
    ELSE IF flow_direction = 1 THEN EdgeRows
    ELSE IF flow_direction = 2 THEN EdgeColumns
    ELSE IF flow_direction = 3 THEN EdgeRows
    ELSE {}

\* self._b[walls] = True
wall_b(bb, flow_direction) ==
    [c \in Cells |-> IF c \in WallCells(flow_direction) THEN TRUE ELSE bb[c]]

\* self._v[:, walls] = 0
wall_v(vv, flow_direction) ==
    [k \in 0 .. 1 |-> [c \in Cells |-> IF c \in WallCells(flow_direction) THEN 0
                                                ELSE vv[k][c]]]

\* the cache left as it was
cache_notb_stale(bb) == notb

\* self._notb = np.logical_not(self._b)
cache_notb(bb) == logical_not(bb)

set_boundary(cell_ocupation, boundary_velocity, flow_direction) ==
    LET b1 == input_b(cell_ocupation)
        v1 == input_v(v, b1, boundary_velocity)
        b2 == wall_b(b1, flow_direction)
        v2 == wall_v(v1, flow_direction)
    IN  /\ b' = b2
        /\ v' = v2
        /\ notb' = cache_notb(b2)
        /\ last' = [op |-> "set_boundary", dir |-> flow_direction,
                    mask |-> cell_ocupation, vel |-> boundary_velocity]
        /\ calls' = calls + 1
        /\ UNCHANGED <<shape, mode, d>>

\* dt divided by flow_speed, not multiplied
flowwidth_divided(dt, flow_speed) ==
    1 + PyInt(RDiv(RDiv(dt, RMul(Rat(flow_speed, 1), SpeedUnit)), dx[0]))

\* flowwidth = 1 + int(dt * flow_speed / self._dx[0])
flowwidth(dt, flow_speed) ==
    1 + PyInt(RDiv(RMul(dt, RMul(Rat(flow_speed, 1), SpeedUnit)), dx[0]))

\* cells of rows [:w] and [-w:]
RowBand(w) == {c \in Cells : c[1] \in PySliceTo(shape[0], w) \cup PySliceFrom(shape[0], -w)}

\* cells of columns [:w] and [-w:]
ColumnBand(w) == {c \in Cells : c[2] \in PySliceTo(shape[1], w) \cup PySliceFrom(shape[1], -w)}

\* directions 2 and 3 injecting +flow_speed
inject_v_unsigned(vv, w, flow_speed, flow_direction) ==
    IF flow_direction \in {0, 2} THEN
        [k \in 0 .. 1 |-> [c \in Cells |->
            IF c \in RowBand(w) THEN (IF k = 0 THEN flow_speed ELSE 0) ELSE vv[k][c]]]
    ELSE IF flow_direction \in {1, 3} THEN
        [k \in 0 .. 1 |-> [c \in Cells |->
            IF c \in ColumnBand(w) THEN (IF k = 0 THEN 0 ELSE flow_speed) ELSE vv[k][c]]]
    ELSE vv

\* the if/elif chain of set_velocity
inject_v(vv, w, flow_speed, flow_direction) ==
    IF flow_direction = 0 THEN
        [k \in 0 .. 1 |-> [c \in Cells |->
            IF c \in RowBand(w) THEN (IF k = 0 THEN flow_speed ELSE 0) ELSE vv[k][c]]]
    ELSE IF flow_direction = 1 THEN
        [k \in 0 .. 1 |-> [c \in Cells |->
            IF c \in ColumnBand(w) THEN (IF k = 0 THEN 0 ELSE flow_speed) ELSE vv[k][c]]]
    ELSE IF flow_direction = 2 THEN
        [k \in 0 .. 1 |-> [c \in Cells |->
            IF c \in RowBand(w) THEN (IF k = 0 THEN -flow_speed ELSE 0) ELSE vv[k][c]]]
    ELSE IF flow_direction = 3 THEN
        [k \in 0 .. 1 |-> [c \in Cells |->
            IF c \in ColumnBand(w) THEN (IF k = 0 THEN 0 ELSE -flow_speed) ELSE vv[k][c]]]
    ELSE vv

\* add_density called whatever the mode
inject_d_always(dd, w, flow_direction, num_streams, smoke_amount) ==
    DensityField_add_density(dd, w, flow_direction, num_streams, smoke_amount)

\* if self._mode == 0: self._d.add_density(...)
inject_d(dd, w, flow_direction, num_streams, smoke_amount) ==
    IF mode = 0 THEN DensityField_add_density(dd, w, flow_direction, num_streams, smoke_amount)
    ELSE dd

set_velocity(dt, flow_speed, flow_direction, num_streams, smoke_amount) ==
    LET w == flowwidth(dt, flow_speed)
    IN  /\ v' = inject_v(v, w, flow_speed, flow_direction)
        /\ d' = inject_d(d, w, flow_direction, num_streams, smoke_amount)
        /\ last' = [op |-> "set_velocity", dir |-> flow_direction, dt |-> dt,
                    speed |-> flow_speed, streams |-> num_streams,
                    smoke |-> smoke_amount, w |-> w]
        /\ calls' = calls + 1
        /\ UNCHANGED <<shape, mode, b, notb>>

\* the velocity field left as it was
reset_v_kept(vv) == vv

\* self._v[:] = 0
reset_v(vv) == [k \in 0 .. 1 |-> zeros]

reset ==
    /\ v' = reset_v(v)
    /\ d' = DensityField_reset(d)
    /\ last' = [op |-> "reset"]
    /\ calls' = calls + 1
    /\ UNCHANGED <<shape, mode, b, notb>>

\* velocities the solver may leave in the fluid cells
StepVels == {<<0, 0>>, <<1, 1>>}

\* the solver step of the derived simulation: new velocities in the fluid
\* cells, and the density field advected when it is handed over
step(dt, field, u) ==
    /\ v' = [k \in 0 .. 1 |-> [c \in Cells |-> IF notb[c] THEN u[k + 1] ELSE v[k][c]]]
    /\ d' = IF field THEN [d EXCEPT !.advected = TRUE] ELSE d

udpate(dt, u) ==
    /\ IF mode = 0 THEN step(dt, TRUE, u) ELSE step(dt, FALSE, u)
    /\ last' = [op |-> "udpate"]
    /\ calls' = calls + 1
    /\ UNCHANGED <<shape, mode, b, notb>>

(***************************************************************************)
(* Options.py: CycleOption and RangeOption                                 *)
(***************************************************************************)
\* largest value of a range control
MaxValue == 2
\* longest option list given to a cycling control
MaxLen == 3

\* the characters bound to controls
Chars == {"m", "-", "="}

\* Python's ord() on those characters
ord(ch) == CASE ch = "m" -> 109
             [] ch = "-" -> 45
             [] ch = "=" -> 61

\* key codes the frame loop polls the controls with (255: no key pressed)
KeyCodes == {ord(ch) : ch \in Chars} \cup {255}

PyMin(x, y) == IF y < x THEN y ELSE x

PyMax(x, y) == IF y > x THEN y ELSE x

NoObject == [made |-> FALSE]

NoCall == [op |-> "none"]

\* CycleOption.__init__(name, key, options, current)
CycleOption_init(key, options, current) ==
    /\ cyc' = [made |-> TRUE, key |-> key, options |-> options, current |-> current]
    /\ ret' = [op |-> "CycleOption", value |-> TRUE]
    /\ exc' = "none"
    /\ UNCHANGED rng

\* CycleOption.poll_for_key(key)
CycleOption_poll_for_key(key) ==
    /\ cyc.made
    /\ IF key = ord(cyc.key)
       THEN IF Len(cyc.options) = 0
            THEN /\ exc' = "ZeroDivisionError"
                 /\ ret' = [op |-> "CycleOption.poll_for_key", key |-> key, value |-> FALSE]
                 /\ UNCHANGED cyc
            ELSE /\ cyc' = [cyc EXCEPT !.current = (cyc.current + 1) % Len(cyc.options)]
                 /\ ret' = [op |-> "CycleOption.poll_for_key", key |-> key, value |-> TRUE]
                 /\ exc' = "none"
       ELSE /\ ret' = [op |-> "CycleOption.poll_for_key", key |-> key, value |-> FALSE]
            /\ exc' = "none"
            /\ UNCHANGED cyc
    /\ UNCHANGED rng

\* self._current = max(min(current, range[1]), range[0])
clamp_current(current, range) == PyMax(PyMin(current, range[2]), range[1])

\* RangeOption.__init__(name, keys, range, step, current)
RangeOption_init(keys, range, step_, current) ==
    /\ IF Len(keys) # 2 \/ Len(range) # 2
       THEN /\ exc' = "AssertionError"
            /\ ret' = [op |-> "RangeOption", value |-> FALSE]
            /\ UNCHANGED rng
       ELSE /\ rng' = [made |-> TRUE, keys |-> keys, range |-> range, step |-> step_,
                       current |-> clamp_current(current, range)]
            /\ ret' = [op |-> "RangeOption", value |-> TRUE]
            /\ exc' = "none"
    /\ UNCHANGED cyc

\* self._current = max(self._current - self._step, self._range[0])
lower_current(r) == PyMax(r.current - r.step, r.range[1])

\* no clamp at the top of the range
raise_current_unclamped(r) == r.current + r.step

\* self._current = min(self._current + self._step, self._range[1])
raise_current(r) == PyMin(r.current + r.step, r.range[2])

\* RangeOption.poll_for_key(key)
RangeOption_poll_for_key(key) ==
    /\ rng.made
    /\ IF key = ord(rng.keys[1])
       THEN /\ rng' = [rng EXCEPT !.current = lower_current(rng)]
            /\ ret' = [op |-> "RangeOption.poll_for_key", key |-> key, value |-> TRUE]
       ELSE IF key = ord(rng.keys[2])
       THEN /\ rng' = [rng EXCEPT !.current = raise_current(rng)]
            /\ ret' = [op |-> "RangeOption.poll_for_key", key |-> key, value |-> TRUE]
       ELSE /\ ret' = [op |-> "RangeOption.poll_for_key", key |-> key, value |-> FALSE]
            /\ UNCHANGED rng
    /\ exc' = "none"
    /\ UNCHANGED cyc

(***************************************************************************)
(* Input sets                                                              *)
(***************************************************************************)
\* occupancy masks: nothing, one cell inside the grid, every cell
Masks == {[c \in Cells |-> c \in S] :
            S \in {{}, {<<shape[0] \div 2, shape[1] \div 2>>}, Cells}}

\* boundary velocity fields: non-zero everywhere and different from cell to cell
BoundaryVelocities ==
    {[k \in 0 .. 1 |-> [c \in Cells |-> 1 + ((c[1] + c[2] + k) % 2)]]}

\* key lists: no, one, two and three distinct characters
KeyLists == {<<>>, <<"-">>, <<"-", "=">>, <<"=", "m">>, <<"-", "=", "m">>}

\* option lists: the first n of a fixed list of labels
OptionLists == {[i \in 1 .. n |-> i] : n \in 0 .. MaxLen}

\* range lists: every pair of values, and lists that are not pairs
RangeLists == ((0 .. MaxValue) \X (0 .. MaxValue)) \cup {<<0>>, <<0, 1, 2>>}

Steps == {1, 2}

\* initial values: below, inside and above the ranges
Currents == {-1, 1, MaxValue + 1}

(***************************************************************************)
(* Specification of SimBase                                                *)
(***************************************************************************)
NoOptions ==
    /\ cyc = NoObject
    /\ rng = NoObject
    /\ ret = NoCall
    /\ exc = "none"

Init == /\ \E cam_shape \in CamShapes, res_multiplier \in ResMultipliers :
               SimBase_init(cam_shape, res_multiplier)
        /\ NoOptions

SetMode ==
    /\ calls < MaxCalls
    /\ \E value \in ModeValues : mode_setter(value)
    /\ UNCHANGED optVars

SetBoundary ==
    /\ calls < MaxCalls
    /\ \E cell_ocupation \in Masks, boundary_velocity \in BoundaryVelocities,
          flow_direction \in Directions :
           set_boundary(cell_ocupation, boundary_velocity, flow_direction)
    /\ UNCHANGED optVars

SetVelocity ==
    /\ calls < MaxCalls
    /\ \E dt \in Dts, flow_speed \in Speeds, flow_direction \in Directions,
          num_streams \in NumStreams, smoke_amount \in SmokeAmounts :
           set_velocity(dt, flow_speed, flow_direction, num_streams, smoke_amount)
    /\ UNCHANGED optVars

Reset ==
    /\ calls < MaxCalls
    /\ reset
    /\ UNCHANGED optVars

Update ==
    /\ calls < MaxCalls
    /\ \E dt \in Dts, u \in StepVels : udpate(dt, u)
    /\ UNCHANGED optVars

Next == SetMode \/ SetBoundary \/ SetVelocity \/ Reset \/ Update

Spec == Init /\ [][Next]_vars

(***************************************************************************)
(* Specification of the option controls                                    *)
(***************************************************************************)
NewCycleOption ==
    /\ \E options \in OptionLists : CycleOption_init("m", options, 0)
    /\ UNCHANGED simVars

PollCycleOption ==
    /\ \E key \in KeyCodes : CycleOption_poll_for_key(key)
    /\ UNCHANGED simVars

NewRangeOption ==
    /\ \E keys \in KeyLists, range \in RangeLists, step_ \in Steps, current \in Currents :
           RangeOption_init(keys, range, step_, current)
    /\ UNCHANGED simVars

PollRangeOption ==
    /\ \E key \in KeyCodes : RangeOption_poll_for_key(key)
    /\ UNCHANGED simVars

NextOptions == NewCycleOption \/ PollCycleOption \/ NewRangeOption \/ PollRangeOption

InitOptions == /\ SimBase_init(<<8, 6>>, Rat(1, 2))
               /\ NoOptions

SpecOptions == InitOptions /\ [][NextOptions]_vars

(***************************************************************************)
(* Properties                                                              *)
(***************************************************************************)
FirstLastColumn == {c \in Cells : c[2] = 0 \/ c[2] = shape[1] - 1}

FirstLastRow == {c \in Cells : c[1] = 0 \/ c[1] = shape[0] - 1}

\* C1: in every reachable state the cached complement notb is the cell-wise
\* negation of the boundary mask b.
C1_NotbIsComplement ==
    /\ DOMAIN notb = Cells
    /\ \A c \in Cells : notb[c] = ~b[c]

\* a set_boundary call with a recognised direction has left some cells in the
\* mask and some out of it
C1_Witness ==
    /\ last.op = "set_boundary"
    /\ last.dir \in FlowDirections
    /\ \E c \in Cells : b[c] /\ ~notb[c]
    /\ \E c \in Cells : ~b[c] /\ notb[c]

\* C2: reset() leaves the velocity field zero in both components at every
\* cell and the density field as it was just after construction, and leaves
\* the boundary mask and its cached complement as they were.
C2_ResetClearsFlowKeepsBoundary ==
    [][(last'.op = "reset" /\ calls' = calls + 1) =>
        /\ \A k \in 0 .. 1 : \A c \in Cells : v'[k][c] = 0
        /\ d' = DensityField_init
        /\ b' = b
        /\ notb' = notb]_vars

\* reset() was called on an object whose boundary mask holds cells
C2_Witness ==
    /\ last.op = "reset"
    /\ calls >= 3
    /\ \E c \in Cells : b[c]
    /\ \A k \in 0 .. 1 : \A c \in Cells : v[k][c] = 0

\* C3: after set_boundary with flow_direction in {0, 2} every cell of the
\* first and last column is in the boundary mask with both velocity
\* components 0, whatever the mask and the boundary velocity hold there;
\* with flow_direction in {1, 3} the same holds of the first and last row;
\* no other cell is added, so 0 and 2 (and 1 and 3) place the same walls.
C3_WallsForced ==
    [][(last'.op = "set_boundary" /\ calls' = calls + 1 /\ last'.dir \in FlowDirections) =>
        LET forced == IF last'.dir \in {0, 2} THEN FirstLastColumn ELSE FirstLastRow
        IN  /\ \A c \in forced : b'[c] /\ v'[0][c] = 0 /\ v'[1][c] = 0
            /\ \A c \in Cells \ forced : b'[c] = last'.mask[c]]_vars

\* set_boundary with direction 2 walled the first and last column, while a
\* masked cell inside the grid carries the (non-zero) boundary velocity
C3_Witness ==
    /\ last.op = "set_boundary"
    /\ last.dir = 2
    /\ \A c \in FirstLastColumn : b[c] /\ v[0][c] = 0 /\ v[1][c] = 0
    /\ \E c \in Cells \ FirstLastColumn : b[c] /\ v[0][c] # 0
    /\ \E c \in FirstLastRow \ FirstLastColumn : ~b[c]

\* C4 as stated: set_boundary with a flow_direction outside {0,1,2,3} leaves
\* the boundary mask and the velocity field untouched.
C4_OutOfRangeIsNoOp ==
    [][(last'.op = "set_boundary" /\ calls' = calls + 1 /\ last'.dir \notin FlowDirections) =>
        b' = b /\ v' = v]_vars

\* C4 as amended: set_boundary with a flow_direction outside {0,1,2,3} adds
\* no wall: the boundary mask becomes the supplied occupancy mask, the
\* velocity field takes the boundary velocity at the masked cells and every
\* other cell keeps its velocity.
C4_OutOfRangeAddsNoWalls ==
    [][(last'.op = "set_boundary" /\ calls' = calls + 1 /\ last'.dir \notin FlowDirections) =>
        /\ \A c \in Cells : b'[c] = last'.mask[c]
        /\ \A k \in 0 .. 1 : \A c \in Cells :
               v'[k][c] = IF last'.mask[c] THEN last'.vel[k][c] ELSE v[k][c]]_vars

\* set_boundary with an unrecognised direction installed a one-cell mask
C4_Witness ==
    /\ last.op = "set_boundary"
    /\ last.dir \notin FlowDirections
    /\ Cardinality({c \in Cells : b[c]}) = 1
    /\ \E c \in Cells : b[c] /\ v[0][c] # 0

\* the axis a flow direction injects along
FlowAxis(dir) == IF dir \in {0, 2} THEN 0 ELSE 1

\* C5: for every flow_direction in {0,1,2,3} the band width set_velocity
\* uses and forwards to the density field is
\* 1 + floor(dt * flow_speed / dx[axis]), axis being the flow axis of the
\* direction.
C5_WidthUsesFlowAxis ==
    [][(last'.op = "set_velocity" /\ calls' = calls + 1 /\ last'.dir \in FlowDirections) =>
        LET flow_speed == RMul(Rat(last'.speed, 1), SpeedUnit)
            w == 1 + Floor(RDiv(RMul(last'.dt, flow_speed), dx[FlowAxis(last'.dir)]))
        IN  /\ last'.w = w
            /\ mode = 0 => d'.args[1] = w]_vars

\* C6: set_velocity with flow_direction in {0,1,2,3} and band width w sets
\* the component along the flow axis to +flow_speed (directions 0, 1) or
\* -flow_speed (directions 2, 3) and the other component to 0 at every cell
\* of rows [0,w) and [rows-w,rows) (directions 0, 2) or of columns [0,w) and
\* [cols-w,cols) (directions 1, 3), and leaves every other cell's velocity
\* as it was.
C6_BandInjected ==
    [][(last'.op = "set_velocity" /\ calls' = calls + 1 /\ last'.dir \in FlowDirections) =>
        LET w == last'.w
            axis == FlowAxis(last'.dir)
            band == {c \in Cells : c[axis + 1] < w \/ c[axis + 1] >= shape[axis] - w}
            signed == IF last'.dir \in {0, 1} THEN last'.speed ELSE -last'.speed
        IN  /\ \A c \in band : v'[axis][c] = signed /\ v'[1 - axis][c] = 0
            /\ \A c \in Cells \ band : \A k \in 0 .. 1 : v'[k][c] = v[k][c]]_vars

\* set_velocity with direction 2 set a band of rows to -flow_speed and left
\* a row between the two bands with the velocity it had
C6_Witness ==
    /\ last.op = "set_velocity"
    /\ last.dir = 2
    /\ \E c \in Cells : c[1] < last.w /\ v[0][c] = -last.speed /\ v[1][c] = 0
    /\ \E c \in Cells : /\ c[1] >= last.w
                        /\ c[1] < shape[0] - last.w
                        /\ v[1][c] # 0

\* C7: set_velocity forwards (w, flow_direction, num_streams, smoke_amount)
\* to add_density exactly once when mode is 0 and leaves the density field
\* alone otherwise; nothing but a set_velocity call made in mode 0 injects
\* into the density field.
C7_DensityFedInSmokeModeOnly ==
    [][/\ (last'.op = "set_velocity" /\ calls' = calls + 1) =>
              IF mode = 0
              THEN d' = [count |-> d.count + 1,
                         args |-> <<last'.w, last'.dir, last'.streams, last'.smoke>>,
                         advected |-> d.advected]
              ELSE d' = d
       /\ d'.count > d.count =>
              mode = 0 /\ last'.op = "set_velocity" /\ d'.count = d.count + 1]_vars

\* one injection was made in mode 0, then set_velocity was called in another
\* mode and the density field still counts one injection
C7_Witness ==
    /\ last.op = "set_velocity"
    /\ mode # 0
    /\ d.count = 1
    /\ calls >= 3

\* C9: of two set_velocity calls with the same dt on the same grid, the one
\* with the larger flow speed computes a band width that is not smaller.
C9_WidthMonotone ==
    [][(/\ last.op = "set_velocity"
        /\ last'.op = "set_velocity"
        /\ calls' = calls + 1
        /\ last.dt = last'.dt
        /\ last.speed <= last'.speed) => last.w <= last'.w]_vars

\* a set_velocity call at the larger speed computed a wider band than the
\* band an earlier call had forwarded to the density field
C9_Witness ==
    /\ last.op = "set_velocity"
    /\ last.speed = 2
    /\ mode # 0
    /\ d.count = 1
    /\ d.args[1] < last.w

\* C8: a range control whose key list does not have two entries and a
\* cycling control whose option list is empty are never created.
C8_ConstructionValidated ==
    /\ cyc.made => Len(cyc.options) > 0
    /\ rng.made => Len(rng.keys) = 2

\* C10: a RangeOption with range [lo, hi], lo <= hi, always has
\* lo <= current <= hi; the first key lowers current by step, not below lo,
\* the second raises it by step, not above hi, and any other key leaves it
\* unchanged and returns False.
C10_RangeClamped ==
    /\ [](rng.made /\ rng.range[1] <= rng.range[2] =>
            rng.range[1] <= rng.current /\ rng.current <= rng.range[2])
    /\ [][\A key \in KeyCodes :
            (RangeOption_poll_for_key(key) /\ rng.range[1] <= rng.range[2]) =>
                LET lo == rng.range[1]
                    hi == rng.range[2]
                    down == rng.current - rng.step
                    up == rng.current + rng.step
                IN  IF key = ord(rng.keys[1])
                    THEN /\ rng'.current = IF down < lo THEN lo ELSE down
                         /\ ret'.value = TRUE
                    ELSE IF key = ord(rng.keys[2])
                    THEN /\ rng'.current = IF up > hi THEN hi ELSE up
                         /\ ret'.value = TRUE
                    ELSE /\ rng'.current = rng.current
                         /\ ret'.value = FALSE]_vars

\* the second key was pressed and current stopped at the top of a range
\* that is more than one step wide
C10_Witness ==
    /\ rng.made
    /\ ret.op = "RangeOption.poll_for_key"
    /\ ret.value = TRUE
    /\ ret.key = ord(rng.keys[2])
    /\ rng.range[1] + rng.step < rng.range[2]
    /\ rng.current = rng.range[2]

====
